---- MODULE Spec2Model ----
(***************************************************************************)
(* EventScheduler (src/event_scheduler.py): a task registry, a level-wise  *)
(* topological sort (Kahn) and a resource-constrained event simulation.    *)
(*                                                                         *)
(* The registry `events` is Python's insertion-ordered dict, kept here as  *)
(* the sequence of its values (names unique).  The heaps ready_queue and   *)
(* active_events are kept as the sets of their items: heapq.heappop always *)
(* returns the least tuple, which is what HeapMin/ActiveMin compute.       *)
(***************************************************************************)
EXTENDS Integers, Sequences, FiniteSets, TLC

VARIABLES
    total_resources,   \* self.total_resources
    events,            \* self.events: sequence of Event records, in dict order
    schedule,          \* self.schedule: name -> <<start_time, end_time>>
    pc,                \* "idle", or "loop": inside the while loop of schedule_events
    call,              \* the method called last
    raised,            \* exception that left the last call: "none" or its kind
    returned,          \* what the last call returned (schedule_events: self.schedule)
    sorted_order,      \* the list topological_sort returned last
    ready_queue,       \* schedule_events: heap of <<priority, name>>
    waiting,           \* schedule_events: name -> set of unfinished dependencies
    current_time,      \* schedule_events: the clock
    active_resources,  \* schedule_events: workers in use
    active_events,     \* schedule_events: heap of <<end_time, name, resources>>
    scheduled,         \* schedule_events: completed names
    broke,             \* schedule_events left its loop through the break (line 195)
    prior,             \* history: self.schedule when schedule_events was last entered
    budget,            \* registry calls the run may still make (bounds the run)
    missed,            \* the list check_deadlines returned last
    rerun,             \* history: schedule_events was entered right after it had returned
    file,              \* sim.py: <<>> or <<data>>, the JSON document on disk
    origin             \* history: <<>> or the registry and pool save_tasks_to_json wrote

vars == <<total_resources, events, schedule, pc, call, raised, returned, sorted_order, ready_queue,
          waiting, current_time, active_resources, active_events, scheduled, broke, prior, budget,
          missed, rerun, file, origin>>

runvars == <<ready_queue, waiting, current_time, active_resources, active_events,
             scheduled, broke>>

filevars == <<file, origin>>

(***************************************************************************)
(* Bounds of the model.                                                    *)
(***************************************************************************)
MaxSpan == 4        \* scheduling runs: the durations of a registry sum to at most this
MaxDemand == 4      \* scheduling runs: the workers required sum to at most this
MaxEdges == 2       \* scheduling runs: dependency entries in a registry
MaxSortEdges == 3   \* sorting runs: dependency entries in a registry
MaxTotal == 2       \* total_resources
MaxOps == 3         \* registry calls in one life of the scheduler

\* Task names, in Python's string order ("A" < "B" < "C"); "Z" is never registered.
NameOrder == <<"A", "B", "C">>
Names == {NameOrder[i] : i \in DOMAIN NameOrder}
Unknown == "Z"
NoDeadline == -1

Rank(n) == IF n = Unknown THEN Len(NameOrder) + 1
           ELSE CHOOSE i \in DOMAIN NameOrder : NameOrder[i] = n

Durations == {1, 2}
Resources == 1..MaxTotal
Priorities == {1, 2}
Totals == 1..MaxTotal

\* Event.__init__
Event(name, duration, dependencies, resources_required, priority, deadline) ==
    [name |-> name, duration |-> duration, dependencies |-> dependencies,
     resources_required |-> resources_required, priority |-> priority,
     deadline |-> deadline]

Range(s) == {s[i] : i \in DOMAIN s}

\* the keys of self.events
Registered(evs) == {evs[i].name : i \in DOMAIN evs}

\* self.events[name]
Lookup(evs, name) == evs[CHOOSE i \in DOMAIN evs : evs[i].name = name]

EmptyMap == [n \in {} |-> 0]

Max(S) == CHOOSE x \in S : \A y \in S : y <= x
Min(S) == CHOOSE x \in S : \A y \in S : x <= y

(***************************************************************************)
(* Python's tuple order on (priority, name) and (end_time, name, res).     *)
(***************************************************************************)
\* the order on names alone, the priority ignored
PairLessByName(p, q) == Rank(p[2]) < Rank(q[2])

\* the tuple order with the names compared the other way round
PairLessLargerName(p, q) == \/ p[1] < q[1]
                            \/ p[1] = q[1] /\ Rank(p[2]) > Rank(q[2])

PairLess(p, q) == \/ p[1] < q[1]
                  \/ p[1] = q[1] /\ Rank(p[2]) < Rank(q[2])

HeapMin(h) == CHOOSE p \in h : \A q \in h \ {p} : PairLess(p, q)

TripleLess(p, q) == \/ p[1] < q[1]
                    \/ p[1] = q[1] /\ Rank(p[2]) < Rank(q[2])
                    \/ p[1] = q[1] /\ p[2] = q[2] /\ p[3] < q[3]

ActiveMin(h) == CHOOSE p \in h : \A q \in h \ {p} : TripleLess(p, q)

\* sorted(names, key=lambda n: (priority, n)) as a sequence
RECURSIVE SortByPriorityName(_, _)
SortByPriorityName(evs, S) ==
    IF S = {} THEN <<>>
    ELSE LET m == HeapMin({<<Lookup(evs, n).priority, n>> : n \in S})[2]
         IN <<m>> \o SortByPriorityName(evs, S \ {m})

(***************************************************************************)
(* topological_sort (lines 61-111).                                        *)
(***************************************************************************)
\* the (dependency, event_name) pairs in the order lines 72-77 visit them
RECURSIVE Edges(_)
Edges(evs) ==
    IF evs = <<>> THEN <<>>
    ELSE LET e == Head(evs)
         IN [j \in 1..Len(e.dependencies) |-> <<e.dependencies[j], e.name>>]
            \o Edges(Tail(evs))

\* adj_list[name]: the dependents appended at line 76, in order
AdjList(evs, name) ==
    LET IsFrom(edge) == edge[1] = name
        sel == SelectSeq(Edges(evs), IsFrom)
    IN [k \in 1..Len(sel) |-> sel[k][2]]

\* line 77 with = 1 for += 1: a flag instead of a count
InDegreeFlag(evs) ==
    [n \in Registered(evs) |-> IF Lookup(evs, n).dependencies = <<>> THEN 0 ELSE 1]

\* in_degree after lines 69-77
InDegree(evs) ==
    [n \in Registered(evs) |-> Len(Lookup(evs, n).dependencies)]

\* lines 74-75 left out
UnknownEdgesIgnored(evs) == <<>>

\* the edges whose dependency is not a key of self.events (line 74)
UnknownEdges(evs) ==
    LET IsUnknown(edge) == edge[1] \notin Registered(evs)
    IN SelectSeq(Edges(evs), IsUnknown)

\* lines 100-103 for one popped node: st = [deg, newly]
RECURSIVE VisitNeighbors(_, _)
VisitNeighbors(st, adj) ==
    IF adj = <<>> THEN st
    ELSE LET nb == Head(adj)
             deg == [st.deg EXCEPT ![nb] = @ - 1]
         IN VisitNeighbors([deg |-> deg,
                            newly |-> IF deg[nb] = 0 THEN st.newly \cup {nb}
                                      ELSE st.newly],
                           Tail(adj))

\* lines 98-103 over one level: st = [deg, newly, out]
RECURSIVE VisitLevel(_, _, _)
VisitLevel(evs, st, level) ==
    IF level = <<>> THEN st
    ELSE LET current == Head(level)
             v == VisitNeighbors([deg |-> st.deg, newly |-> st.newly],
                                 AdjList(evs, current))
         IN VisitLevel(evs, [deg |-> v.deg, newly |-> v.newly,
                             out |-> Append(st.out, current)],
                       Tail(level))

\* line 96 left out and the level taken in dict order
LevelOrderInsertion(evs, ready) ==
    LET InLevel(e) == e.name \in ready
        sel == SelectSeq(evs, InLevel)
    IN [i \in 1..Len(sel) |-> sel[i].name]

\* the order in which a drained level is appended (line 96)
LevelOrder(evs, ready) == SortByPriorityName(evs, ready)

\* lines 89-106 as a single-pop loop: the least ready node is appended and
\* its newly ready dependents join the heap at once
RECURSIVE KahnSinglePop(_, _, _, _)
KahnSinglePop(evs, deg, ready, out) ==
    IF ready = {} THEN out
    ELSE LET current == SortByPriorityName(evs, ready)[1]
             v == VisitLevel(evs, [deg |-> deg, newly |-> {}, out |-> out],
                             <<current>>)
         IN KahnSinglePop(evs, v.deg, (ready \ {current}) \cup v.newly, v.out)

\* the while loop of lines 89-106: ready is the content of ready_heap
RECURSIVE KahnLevels(_, _, _, _)
KahnLevels(evs, deg, ready, out) ==
    IF ready = {} THEN out
    ELSE LET v == VisitLevel(evs, [deg |-> deg, newly |-> {}, out |-> out],
                             LevelOrder(evs, ready))
         IN KahnLevels(evs, v.deg, v.newly, v.out)

\* line 108 with > for !=
CycleTestGreater(out, evs) == Len(out) > Len(evs)

\* line 108: the test that reports a cycle
CycleTest(out, evs) == Len(out) # Len(evs)

\* the whole method: what it raises, and the list it returns
topological_sort(evs) ==
    LET bad == UnknownEdges(evs)
    IN IF bad # <<>>
       THEN [raised |-> "unknown_dependency", order |-> <<>>]
       ELSE LET deg == InDegree(evs)
                out == KahnLevels(evs, deg,
                                  {n \in Registered(evs) : deg[n] = 0}, <<>>)
            IN IF CycleTest(out, evs)
               THEN [raised |-> "cycle", order |-> <<>>]
               ELSE [raised |-> "none", order |-> out]

(***************************************************************************)
(* The registry: add_event, remove_event, modify_event (lines 24-59).      *)
(***************************************************************************)
\* self.events[event.name] = event: a present key keeps its place in the dict
AddToDict(evs, event) ==
    IF event.name \in Registered(evs)
    THEN [i \in DOMAIN evs |-> IF evs[i].name = event.name THEN event ELSE evs[i]]
    ELSE Append(evs, event)

\* del self.events[event_name]
DelFromDict(evs, name) ==
    LET Keep(e) == e.name # name IN SelectSeq(evs, Keep)

\* lines 32-33 left out: the schedule entry stays
DelFromScheduleKept(sched, name) == sched

\* lines 32-33: del self.schedule[event_name] when present
DelFromSchedule(sched, name) == [n \in DOMAIN sched \ {name} |-> sched[n]]

\* the fields modify_event looks for in kwargs (lines 49-58)
ModifiableFields ==
    {"duration", "dependencies", "resources_required", "priority", "deadline"}

\* lines 48-58 rebuilding the event: a field not in kwargs takes the default
\* of the constructor (the duration has none and is kept)
ApplyUpdatesDefaults(event, kwargs) ==
    LET fresh == Event(event.name, event.duration, <<>>, 1, 1, NoDeadline)
    IN [f \in DOMAIN event |->
           IF f \in ModifiableFields /\ f \in DOMAIN kwargs THEN kwargs[f] ELSE fresh[f]]

\* lines 48-58 on one event
ApplyUpdates(event, kwargs) ==
    [f \in DOMAIN event |->
        IF f \in ModifiableFields /\ f \in DOMAIN kwargs THEN kwargs[f] ELSE event[f]]

\* the locals of schedule_events do not outlive the call
ResetLocals ==
    /\ ready_queue' = {}
    /\ waiting' = EmptyMap
    /\ current_time' = 0
    /\ active_resources' = 0
    /\ active_events' = {}
    /\ scheduled' = {}
    /\ broke' = FALSE
    /\ sorted_order' = <<>>
    /\ prior' = EmptyMap
    /\ missed' = <<>>
    /\ rerun' = FALSE

add_event(event) ==
    /\ pc = "idle"
    /\ budget > 0
    /\ events' = AddToDict(events, event)
    /\ call' = "add_event"
    /\ raised' = "none"
    /\ returned' = "None"
    /\ budget' = budget - 1
    /\ ResetLocals
    /\ UNCHANGED <<total_resources, schedule, pc, filevars>>

remove_event(event_name) ==
    /\ pc = "idle"
    /\ budget > 0
    /\ IF event_name \in Registered(events)
       THEN /\ events' = DelFromDict(events, event_name)
            /\ schedule' = DelFromSchedule(schedule, event_name)
            /\ returned' = "True"
       ELSE /\ UNCHANGED <<events, schedule>>
            /\ returned' = "False"
    /\ call' = "remove_event"
    /\ raised' = "none"
    /\ budget' = budget - 1
    /\ ResetLocals
    /\ UNCHANGED <<total_resources, pc, filevars>>

modify_event(event_name, kwargs) ==
    /\ pc = "idle"
    /\ budget > 0
    /\ IF event_name \notin Registered(events)
       THEN /\ UNCHANGED events
            /\ returned' = "False"
       ELSE /\ events' = AddToDict(events, ApplyUpdates(Lookup(events, event_name), kwargs))
            /\ returned' = "True"
    /\ call' = "modify_event"
    /\ raised' = "none"
    /\ budget' = budget - 1
    /\ ResetLocals
    /\ UNCHANGED <<total_resources, schedule, pc, filevars>>

\* a call of topological_sort from outside (print_schedule, line 219)
topological_sort_call ==
    /\ pc = "idle"
    /\ \E ts \in {topological_sort(events)} :
          /\ raised' = ts.raised
          /\ sorted_order' = ts.order
          /\ returned' = IF ts.raised = "none" THEN "order" ELSE "nothing"
    /\ call' = "topological_sort"
    /\ ready_queue' = {}
    /\ waiting' = EmptyMap
    /\ current_time' = 0
    /\ active_resources' = 0
    /\ active_events' = {}
    /\ scheduled' = {}
    /\ broke' = FALSE
    /\ prior' = EmptyMap
    /\ missed' = <<>>
    /\ rerun' = FALSE
    /\ UNCHANGED <<total_resources, events, schedule, pc, budget, filevars>>

(***************************************************************************)
(* check_deadlines (lines 199-209).                                        *)
(***************************************************************************)
\* line 207 without the test for a deadline being set
MissedTestAnyDeadline(deadline, end) == end > deadline

\* line 207
MissedTest(deadline, end) == deadline > 0 /\ end > deadline

\* lines 204-208 over the keys ks of self.schedule
RECURSIVE MissedOver(_, _, _)
MissedOver(evs, sched, ks) ==
    IF ks = <<>> THEN <<>>
    ELSE LET event_name == Head(ks)
             event == Lookup(evs, event_name)
             end == sched[event_name][2]
         IN (IF MissedTest(event.deadline, end)
             THEN <<(<<event_name, event.deadline, end>>)>>
             ELSE <<>>)
            \o MissedOver(evs, sched, Tail(ks))

\* the keys of self.schedule as a list: the model does not keep the order in
\* which the dict received them and lists them by name
ScheduleKeys(sched) ==
    LET In(n) == n \in DOMAIN sched IN SelectSeq(NameOrder, In)

\* the whole method; line 206 raises KeyError on a key that is not registered
check_deadlines ==
    /\ pc = "idle"
    /\ call' = "check_deadlines"
    /\ IF DOMAIN schedule \subseteq Registered(events)
       THEN /\ raised' = "none"
            /\ returned' = "missed"
            /\ missed' = MissedOver(events, schedule, ScheduleKeys(schedule))
       ELSE /\ raised' = "KeyError"
            /\ returned' = "nothing"
            /\ missed' = <<>>
    /\ ready_queue' = {}
    /\ waiting' = EmptyMap
    /\ current_time' = 0
    /\ active_resources' = 0
    /\ active_events' = {}
    /\ scheduled' = {}
    /\ broke' = FALSE
    /\ sorted_order' = <<>>
    /\ prior' = EmptyMap
    /\ rerun' = FALSE
    /\ UNCHANGED <<total_resources, events, schedule, pc, budget, filevars>>

(***************************************************************************)
(* schedule_events (lines 113-197).                                        *)
(***************************************************************************)
Put(f, k, v) == [x \in DOMAIN f \cup {k} |-> IF x = k THEN v ELSE f[x]]

\* lines 130-137: the tasks pushed on ready_queue before the loop
InitialReady(evs, order) ==
    {<<Lookup(evs, n).priority, n>> :
        n \in {m \in Range(order) : Lookup(evs, m).dependencies = <<>>}}

\* lines 130-137: waiting[name] = set(event.dependencies)
InitialWaiting(evs, order) ==
    [n \in {m \in Range(order) : Lookup(evs, m).dependencies # <<>>} |->
        Range(Lookup(evs, n).dependencies)]

\* lines 151-157 for one completed task: st = [waiting, ready_queue]
Release(evs, st, completed_name) ==
    LET w == [n \in DOMAIN st.waiting |-> st.waiting[n] \ {completed_name}]
        freed == {n \in DOMAIN w : completed_name \in st.waiting[n] /\ w[n] = {}}
    IN [waiting |-> [n \in DOMAIN w \ freed |-> w[n]],
        ready_queue |-> st.ready_queue
                        \cup {<<Lookup(evs, n).priority, n>> : n \in freed}]

\* line 145: the head of active_events finishes now
Finishes(active, t) == active # {} /\ ActiveMin(active)[1] = t

\* lines 145-157: st = [active_events, active_resources, scheduled, waiting, ready_queue]
RECURSIVE CompleteFinished(_, _, _)
CompleteFinished(evs, t, st) ==
    IF Finishes(st.active_events, t)
    THEN LET top == ActiveMin(st.active_events)
             r == Release(evs, [waiting |-> st.waiting,
                                ready_queue |-> st.ready_queue], top[2])
         IN CompleteFinished(evs, t,
                [active_events |-> st.active_events \ {top},
                 active_resources |-> st.active_resources - top[3],
                 scheduled |-> st.scheduled \cup {top[2]},
                 waiting |-> r.waiting,
                 ready_queue |-> r.ready_queue])
    ELSE st

\* line 168 without the workers already in use
FitsIgnoringActive(active, required, total) == required <= total

\* line 168 with < for <=
FitsStrict(active, required, total) == active + required < total

\* line 168
Fits(active, required, total) == active + required <= total

\* lines 170-173 taking the earliest dependency end
StartTimeEarliest(t, dependencies, sched) ==
    IF dependencies = <<>> THEN t
    ELSE Min({sched[d][2] : d \in Range(dependencies)})

\* lines 170-173
StartTime(t, dependencies, sched) ==
    IF dependencies = <<>> THEN t
    ELSE Max({t, Max({sched[d][2] : d \in Range(dependencies)})})

\* line 175 with the last day counted as the end
IntervalInclusive(start_time, duration) == <<start_time, start_time + duration - 1>>

\* lines 175-176: the interval recorded for an admitted task
Interval(start_time, duration) == <<start_time, start_time + duration>>

\* lines 163-183 with a break at line 183: the first task that does not fit
\* ends the pass and the tasks behind it stay in ready_queue
RECURSIVE AdmissionPassBlocking(_, _, _, _)
AdmissionPassBlocking(evs, total, t, st) ==
    IF st.ready_queue = {} \/ st.raised # "none" THEN st
    ELSE LET item == HeapMin(st.ready_queue)
             event == Lookup(evs, item[2])
             popped == [st EXCEPT !.ready_queue = @ \ {item}]
         IN IF Fits(st.active_resources, event.resources_required, total)
            THEN IF \E d \in Range(event.dependencies) : d \notin DOMAIN st.schedule
                 THEN [popped EXCEPT !.raised = "KeyError"]
                 ELSE LET iv == Interval(StartTime(t, event.dependencies, st.schedule),
                                         event.duration)
                      IN AdmissionPassBlocking(evs, total, t,
                            [popped EXCEPT
                               !.schedule = Put(@, item[2], iv),
                               !.active_resources = @ + event.resources_required,
                               !.active_events =
                                   @ \cup {<<iv[2], item[2], event.resources_required>>},
                               !.scheduled_this_round = TRUE])
            ELSE [popped EXCEPT !.temp_queue = @ \cup {item}]

\* lines 163-183: st = [ready_queue, temp_queue, schedule, active_resources,
\*                      active_events, scheduled_this_round, raised]
RECURSIVE AdmissionPass(_, _, _, _)
AdmissionPass(evs, total, t, st) ==
    IF st.ready_queue = {} \/ st.raised # "none" THEN st
    ELSE LET item == HeapMin(st.ready_queue)
             event == Lookup(evs, item[2])
             popped == [st EXCEPT !.ready_queue = @ \ {item}]
         IN IF Fits(st.active_resources, event.resources_required, total)
            THEN IF \E d \in Range(event.dependencies) : d \notin DOMAIN st.schedule
                 THEN [popped EXCEPT !.raised = "KeyError"]
                 ELSE LET iv == Interval(StartTime(t, event.dependencies, st.schedule),
                                         event.duration)
                      IN AdmissionPass(evs, total, t,
                            [popped EXCEPT
                               !.schedule = Put(@, item[2], iv),
                               !.active_resources = @ + event.resources_required,
                               !.active_events =
                                   @ \cup {<<iv[2], item[2], event.resources_required>>},
                               !.scheduled_this_round = TRUE])
            ELSE AdmissionPass(evs, total, t,
                               [popped EXCEPT !.temp_queue = @ \cup {item}])

\* line 192 never taking the break
DeadlockNever(ready, scheduled_this_round) == FALSE

\* line 192: the stall test that leads to the break
Deadlock(ready, scheduled_this_round) == ready # {} /\ ~scheduled_this_round

\* line 143
LoopCondition == ready_queue # {} \/ active_events # {} \/ DOMAIN waiting # {}

\* line 119 left out: the previous schedule is kept
KeptSchedule == schedule

\* line 119: self.schedule = {}
ClearedSchedule == EmptyMap

\* lines 118-141: clear the schedule, sort, fill ready_queue and waiting
schedule_events_begin ==
    /\ pc = "idle"
    /\ call' = "schedule_events"
    /\ prior' = schedule
    /\ rerun' = (call = "schedule_events" /\ raised = "none")
    /\ missed' = <<>>
    /\ schedule' = ClearedSchedule
    /\ \E ts \in {topological_sort(events)} :
          /\ raised' = ts.raised
          /\ sorted_order' = ts.order
          /\ IF ts.raised # "none"
             THEN /\ pc' = "idle"
                  /\ returned' = "nothing"
                  /\ UNCHANGED runvars
             ELSE /\ pc' = "loop"
                  /\ returned' = "pending"
                  /\ ready_queue' = InitialReady(events, ts.order)
                  /\ waiting' = InitialWaiting(events, ts.order)
                  /\ current_time' = 0
                  /\ active_resources' = 0
                  /\ active_events' = {}
                  /\ scheduled' = {}
                  /\ broke' = FALSE
    /\ UNCHANGED <<total_resources, events, budget, filevars>>

\* lines 144-195 computed from the state at the top of the loop: the values
\* of the locals after one pass, and whether the pass leaves through the break
Pass ==
    LET c == CompleteFinished(events, current_time,
                    [active_events |-> active_events,
                     active_resources |-> active_resources,
                     scheduled |-> scheduled,
                     waiting |-> waiting,
                     ready_queue |-> ready_queue])
        a == AdmissionPass(events, total_resources, current_time,
                    [ready_queue |-> c.ready_queue,
                     temp_queue |-> {},
                     schedule |-> schedule,
                     active_resources |-> c.active_resources,
                     active_events |-> c.active_events,
                     scheduled_this_round |-> FALSE,
                     raised |-> "none"])
    IN [scheduled |-> c.scheduled,
        waiting |-> c.waiting,
        schedule |-> a.schedule,
        active_resources |-> a.active_resources,
        active_events |-> a.active_events,
        ready_queue |-> a.temp_queue \cup a.ready_queue,
        raised |-> a.raised,
        current_time |-> IF a.raised = "none" /\ a.active_events # {}
                         THEN ActiveMin(a.active_events)[1]
                         ELSE current_time,
        break |-> /\ a.raised = "none"
                  /\ a.active_events = {}
                  /\ Deadlock(a.temp_queue, a.scheduled_this_round)]

\* one pass of the while loop, lines 143-195
schedule_events_iteration ==
    /\ pc = "loop"
    /\ LoopCondition
    /\ \E p \in {Pass} :
          /\ scheduled' = p.scheduled
          /\ waiting' = p.waiting
          /\ schedule' = p.schedule
          /\ active_resources' = p.active_resources
          /\ active_events' = p.active_events
          /\ ready_queue' = p.ready_queue
          /\ raised' = p.raised
          /\ current_time' = p.current_time
          /\ broke' = p.break
          /\ pc' = IF p.raised # "none" \/ p.break THEN "idle" ELSE "loop"
          /\ returned' = IF p.raised # "none" THEN "nothing"
                         ELSE IF p.break THEN "schedule" ELSE returned
    /\ UNCHANGED <<total_resources, events, call, sorted_order, prior, budget,
                   missed, rerun, filevars>>

\* line 143 false, line 197: return self.schedule
schedule_events_return ==
    /\ pc = "loop"
    /\ ~LoopCondition
    /\ pc' = "idle"
    /\ returned' = "schedule"
    /\ UNCHANGED <<total_resources, events, schedule, call, raised, sorted_order,
                   runvars, prior, budget, missed, rerun, filevars>>

(***************************************************************************)
(* Scheduling runs: a registry is drawn, then schedule_events is called    *)
(* once.                                                                   *)
(***************************************************************************)
\* one dependency list per set of other names, in name order
RECURSIVE ListOf(_)
ListOf(S) ==
    IF S = {} THEN <<>>
    ELSE LET m == CHOOSE x \in S : \A y \in S : Rank(x) <= Rank(y)
         IN <<m>> \o ListOf(S \ {m})

\* the events named name with a duration up to span, up to demand workers and
\* up to k dependencies among the other keys S
SchedEvents(S, name, span, demand, k) ==
    {Event(name, d, ListOf(deps), r, p, NoDeadline) :
        d \in 1..span, r \in 1..demand, p \in Priorities,
        deps \in {D \in SUBSET (S \ {name}) : Cardinality(D) <= k}}

\* self.events is a registry that continues acc with the keys ks, in that
\* order, whose durations sum to at most span, whose workers sum to at most
\* demand, with at most k dependency entries
RECURSIVE DrawSchedRegistry(_, _, _, _, _, _)
DrawSchedRegistry(S, ks, acc, span, demand, k) ==
    IF ks = <<>> THEN events = acc
    ELSE \E e \in SchedEvents(S, Head(ks), span, demand, k) :
            DrawSchedRegistry(S, Tail(ks), Append(acc, e), span - e.duration,
                              demand - e.resources_required,
                              k - Len(e.dependencies))

IdleLocals ==
    /\ ready_queue = {}
    /\ waiting = EmptyMap
    /\ current_time = 0
    /\ active_resources = 0
    /\ active_events = {}
    /\ scheduled = {}
    /\ broke = FALSE

\* nothing was checked, scheduled or saved yet
NoHistory ==
    /\ prior = EmptyMap
    /\ missed = <<>>
    /\ rerun = FALSE
    /\ file = <<>>
    /\ origin = <<>>

InitSched ==
    /\ total_resources \in Totals
    /\ \E S \in SUBSET Names :
          DrawSchedRegistry(S, ListOf(S), <<>>, MaxSpan, MaxDemand, MaxEdges)
    /\ schedule = EmptyMap
    /\ pc = "idle"
    /\ call = "none"
    /\ raised = "none"
    /\ returned = "nothing"
    /\ sorted_order = <<>>
    /\ IdleLocals
    /\ NoHistory
    /\ budget = 0

NextSched ==
    \/ /\ call = "none" /\ schedule_events_begin
    \/ schedule_events_iteration
    \/ schedule_events_return

SpecSched == InitSched /\ [][NextSched]_vars

(***************************************************************************)
(* Sorting runs: a registry with any dict order and any dependency lists   *)
(* (unknown names, repeated names, cycles) is drawn, then topological_sort *)
(* and schedule_events are called.                                         *)
(***************************************************************************)
DepLists(k) == UNION {[1..m -> Names \cup {Unknown}] : m \in 0..k}

RECURSIVE Reverse(_)
Reverse(q) == IF q = <<>> THEN <<>> ELSE Append(Reverse(Tail(q)), Head(q))

\* two dict orders of the keys S: ascending and descending names
Orders(S) == {ListOf(S), Reverse(ListOf(S))}

\* self.events is a registry that continues acc with the keys ks, in that
\* order, with at most k dependency entries
RECURSIVE DrawSortRegistry(_, _, _)
DrawSortRegistry(ks, acc, k) ==
    IF ks = <<>> THEN events = acc
    ELSE \E l \in DepLists(k), p \in Priorities :
            DrawSortRegistry(Tail(ks),
                             Append(acc, Event(Head(ks), 1, l, 1, p, NoDeadline)),
                             k - Len(l))

InitSort ==
    /\ total_resources = 1
    /\ \E S \in SUBSET Names : \E ks \in Orders(S) :
          DrawSortRegistry(ks, <<>>, MaxSortEdges)
    /\ schedule = EmptyMap
    /\ pc = "idle"
    /\ call = "none"
    /\ raised = "none"
    /\ returned = "nothing"
    /\ sorted_order = <<>>
    /\ IdleLocals
    /\ NoHistory
    /\ budget = 0

NextSort ==
    \/ /\ call = "none" /\ topological_sort_call
    \/ /\ call # "schedule_events" /\ schedule_events_begin
    \/ schedule_events_iteration
    \/ schedule_events_return

SpecSort == InitSort /\ [][NextSort]_vars

(***************************************************************************)
(* The scheduler's life: constructed empty, then any calls.                *)
(***************************************************************************)
LifeNames == {"A", "B"}
LifeDeadlines == {NoDeadline, 1}
\* one worker, or as many as the largest scheduler has
LifeResources == {1, MaxTotal}

LifeEvents ==
    {Event(n, d, deps, r, 1, dl) :
        n \in LifeNames, d \in Durations, deps \in {ListOf({m}) : m \in LifeNames} \cup {<<>>},
        r \in LifeResources, dl \in LifeDeadlines}

LifeUpdates ==
    {EmptyMap}
    \cup {[duration |-> d] : d \in Durations}
    \cup {[dependencies |-> l] : l \in {ListOf({m}) : m \in LifeNames} \cup {<<>>}}
    \cup {[resources_required |-> r] : r \in LifeResources}
    \cup {[priority |-> p] : p \in Priorities}
    \cup {[deadline |-> dl] : dl \in LifeDeadlines}
    \cup {[duration |-> d, deadline |-> dl] : d \in Durations, dl \in LifeDeadlines}

\* EventScheduler.__init__
Init ==
    /\ total_resources \in Totals
    /\ events = <<>>
    /\ schedule = EmptyMap
    /\ pc = "idle"
    /\ call = "none"
    /\ raised = "none"
    /\ returned = "nothing"
    /\ sorted_order = <<>>
    /\ IdleLocals
    /\ NoHistory
    /\ budget = MaxOps

Next ==
    \/ \E e \in LifeEvents : add_event(e)
    \/ \E n \in LifeNames : remove_event(n)
    \/ \E n \in LifeNames, kw \in LifeUpdates : modify_event(n, kw)
    \/ topological_sort_call
    \/ check_deadlines
    \/ schedule_events_begin
    \/ schedule_events_iteration
    \/ schedule_events_return

Spec == Init /\ [][Next]_vars

(***************************************************************************)
(* The example scenario of the specification, section 8: the scheduler     *)
(* holds the three tasks, then any calls with one more registry call.      *)
(***************************************************************************)
ExampleRegistry ==
    <<Event("A", 3, <<>>, 1, 1, NoDeadline),
      Event("B", 2, <<>>, 2, 2, NoDeadline),
      Event("C", 1, <<"A">>, 1, 1, NoDeadline)>>

InitExample ==
    /\ total_resources = 2
    /\ events = ExampleRegistry
    /\ schedule = EmptyMap
    /\ pc = "idle"
    /\ call = "none"
    /\ raised = "none"
    /\ returned = "nothing"
    /\ sorted_order = <<>>
    /\ IdleLocals
    /\ NoHistory
    /\ budget = 1

SpecExample == InitExample /\ [][Next]_vars

\* the scheduler holds the three tasks of the example, then registry calls,
\* one less than in a life from the empty scheduler, and scheduling calls
InitEdit ==
    /\ total_resources = 2
    /\ events = ExampleRegistry
    /\ schedule = EmptyMap
    /\ pc = "idle"
    /\ call = "none"
    /\ raised = "none"
    /\ returned = "nothing"
    /\ sorted_order = <<>>
    /\ IdleLocals
    /\ NoHistory
    /\ budget = MaxOps - 1

\* the calls that change the registry or the schedule
NextEdit ==
    \/ \E e \in LifeEvents : add_event(e)
    \/ \E n \in LifeNames : remove_event(n)
    \/ \E n \in LifeNames, kw \in LifeUpdates : modify_event(n, kw)
    \/ schedule_events_begin
    \/ schedule_events_iteration
    \/ schedule_events_return

SpecEdit == InitEdit /\ [][NextEdit]_vars

(***************************************************************************)
(* Saving and loading the registry (src/sim.py, lines 210-275).  The JSON  *)
(* document is kept as the dict handed to json.dump and received from      *)
(* json.load: it holds only dicts with string keys, lists, strings and     *)
(* integers, which JSON writes and reads back as the same values.          *)
(***************************************************************************)
\* lines 254-261 without the 'deadline' key
TaskDataNoDeadline(event) ==
    [name |-> event.name,
     duration |-> event.duration,
     dependencies |-> event.dependencies,
     resources_required |-> event.resources_required,
     priority |-> event.priority]

\* lines 254-261: the dict written for one event
TaskData(event) ==
    [name |-> event.name,
     duration |-> event.duration,
     dependencies |-> event.dependencies,
     resources_required |-> event.resources_required,
     priority |-> event.priority,
     deadline |-> event.deadline]

\* lines 252-268: the document save_tasks_to_json writes
SaveData(evs, total) ==
    [total_resources |-> total,
     tasks |-> [i \in DOMAIN evs |-> TaskData(evs[i])]]

\* dict.get(key, default)
Get(d, key, default) == IF key \in DOMAIN d THEN d[key] ELSE default

\* lines 225-232: the event built from one entry of data['tasks']
LoadEvent(task_data) ==
    Event(task_data.name,
          task_data.duration,
          Get(task_data, "dependencies", <<>>),
          Get(task_data, "resources_required", 1),
          Get(task_data, "priority", 1),
          Get(task_data, "deadline", NoDeadline))

\* lines 224-233: the loop over data['tasks']
RECURSIVE LoadTasks(_, _)
LoadTasks(evs, tasks) ==
    IF tasks = <<>> THEN evs
    ELSE LoadTasks(AddToDict(evs, LoadEvent(Head(tasks))), Tail(tasks))

\* the answers to "Clear existing tasks? (y/n)" (line 218)
Responses == {"y", "n"}

save_tasks_to_json ==
    /\ pc = "idle"
    /\ file' = <<SaveData(events, total_resources)>>
    /\ origin' = <<[events |-> events, total_resources |-> total_resources]>>
    /\ call' = "save_tasks_to_json"
    /\ raised' = "none"
    /\ returned' = "None"
    /\ ResetLocals
    /\ UNCHANGED <<total_resources, events, schedule, pc, budget>>

\* without a file (FileNotFoundError, line 242) nothing is loaded; the answer
\* is only asked for, and used, when the registry is not empty
load_tasks_from_json(response) ==
    /\ pc = "idle"
    /\ IF file = <<>>
       THEN UNCHANGED <<events, schedule, total_resources>>
       ELSE LET data == file[1]
                clear == events # <<>> /\ response = "y"
            IN /\ events' = LoadTasks(IF clear THEN <<>> ELSE events, data.tasks)
               /\ schedule' = IF clear THEN EmptyMap ELSE schedule
               /\ total_resources' = Get(data, "total_resources", total_resources)
    /\ call' = "load_tasks_from_json"
    /\ raised' = "none"
    /\ returned' = "None"
    /\ ResetLocals
    /\ UNCHANGED <<pc, budget, filevars>>

\* a JSON document from elsewhere is put in place of the file
write_file(data) ==
    /\ pc = "idle"
    /\ file' = <<data>>
    /\ origin' = <<>>
    /\ UNCHANGED <<total_resources, events, schedule, pc, call, raised, returned,
                   sorted_order, runvars, prior, budget, missed, rerun>>

\* main, lines 285-286: the program is started again with a new scheduler
main(total) ==
    /\ pc = "idle"
    /\ total_resources' = total
    /\ events' = <<>>
    /\ schedule' = EmptyMap
    /\ call' = "none"
    /\ raised' = "none"
    /\ returned' = "nothing"
    /\ ResetLocals
    /\ UNCHANGED <<pc, budget, filevars>>

\* the events a saved registry is made of: any duration and workers, with
\* the other fields all at their defaults or all away from them
FileEvents ==
    {Event(n, d, <<>>, r, 1, NoDeadline) :
        n \in LifeNames, d \in Durations, r \in LifeResources}
    \cup {Event(n, d, ListOf(LifeNames \ {n}), r, 2, 1) :
        n \in LifeNames, d \in Durations, r \in LifeResources}

\* documents from elsewhere: one task with any of the optional keys left
\* out, with and without 'total_resources'
OptionalKeys == {"dependencies", "resources_required", "priority", "deadline"}

Restrict(d, keys) == [k \in DOMAIN d \cap keys |-> d[k]]

Documents ==
    LET full == SaveData(<<Event("A", 2, <<"B">>, 2, 2, 1)>>, MaxTotal)
    IN {[k \in top |->
            IF k = "tasks"
            THEN <<Restrict(full.tasks[1], {"name", "duration"} \cup opt)>>
            ELSE full[k]] :
          top \in {{"tasks"}, {"tasks", "total_resources"}},
          opt \in SUBSET OptionalKeys}

\* a scheduler that holds up to two tasks, and no file
InitFile ==
    /\ total_resources \in Totals
    /\ \/ events = <<>>
       \/ \E e \in FileEvents : events = <<e>>
       \/ \E e1, e2 \in FileEvents : e1.name # e2.name /\ events = <<e1, e2>>
    /\ schedule = EmptyMap
    /\ pc = "idle"
    /\ call = "none"
    /\ raised = "none"
    /\ returned = "nothing"
    /\ sorted_order = <<>>
    /\ IdleLocals
    /\ NoHistory
    /\ budget = 0

NextFile ==
    \/ save_tasks_to_json
    \/ \E response \in Responses : load_tasks_from_json(response)
    \/ \E data \in Documents : write_file(data)
    \/ \E total \in Totals : main(total)

SpecFile == InitFile /\ [][NextFile]_vars

(***************************************************************************)
(* Properties of schedule_events.                                          *)
(***************************************************************************)
\* schedule_events has returned (normally or through the break)
Returned == pc = "idle" /\ call = "schedule_events" /\ raised = "none"

DependenciesOf(name) == Range(Lookup(events, name).dependencies)

RECURSIVE SumOver(_, _)
SumOver(f, S) ==
    IF S = {} THEN 0
    ELSE LET x == CHOOSE y \in S : TRUE IN f[x] + SumOver(f, S \ {x})

\* the tasks whose interval covers time t
RunningAt(t) == {n \in DOMAIN schedule : schedule[n][1] <= t /\ t < schedule[n][2]}

\* workers used at time t according to the schedule
LoadAt(t) ==
    SumOver([n \in DOMAIN schedule |-> Lookup(events, n).resources_required],
            RunningAt(t))

Horizon == Max({0} \cup {schedule[n][2] : n \in DOMAIN schedule})

\* C1: after schedule_events returns, every scheduled task starts no earlier
\* than the recorded end of each of its scheduled dependencies.
C1_DependencyOrder ==
    Returned =>
        \A b \in DOMAIN schedule :
            \A a \in DependenciesOf(b) \cap DOMAIN schedule :
                schedule[a][2] <= schedule[b][1]

\* a returned schedule where a task follows two dependencies that end at
\* different times
C1_Witness ==
    /\ Returned
    /\ \E b \in DOMAIN schedule :
          \E a, c \in DependenciesOf(b) \cap DOMAIN schedule :
              /\ schedule[a][2] < schedule[c][2]
              /\ schedule[c][2] <= schedule[b][1]

\* C2: in the returned schedule, at every integer time the workers of the
\* running tasks sum to at most total_resources.
C2_CapacityRespected ==
    Returned => \A t \in 0..Horizon : LoadAt(t) <= total_resources

\* a returned schedule where the pool is full at some time and a task without
\* dependencies had to start later than 0
C2_Witness ==
    /\ Returned
    /\ \E t \in 0..Horizon :
          LoadAt(t) = total_resources /\ Cardinality(RunningAt(t)) >= 2
    /\ \E n \in DOMAIN schedule :
          Lookup(events, n).dependencies = <<>> /\ schedule[n][1] > 0

\* every registered task fits the pool on its own
AllFit == \A i \in DOMAIN events : events[i].resources_required <= total_resources

\* C5: when the sort succeeds and every task fits the pool, schedule_events
\* returns an interval for every registered task and leaves its loop with the
\* ready queue, the active set and the waiting set empty.
C5_CompleteSchedule ==
    (Returned /\ AllFit) =>
        /\ DOMAIN schedule = Registered(events)
        /\ ready_queue = {} /\ active_events = {} /\ DOMAIN waiting = {}
        /\ ~broke

\* a complete schedule of three tasks, one of which had to wait for workers
C5_Witness ==
    /\ Returned /\ AllFit
    /\ Cardinality(DOMAIN schedule) = 3
    /\ DOMAIN schedule = Registered(events)
    /\ \E n \in DOMAIN schedule :
          Lookup(events, n).dependencies = <<>> /\ schedule[n][1] > 0

\* tasks not yet admitted plus tasks not yet completed
Remaining(sched, completed) ==
    Cardinality(Registered(events) \ DOMAIN sched)
    + Cardinality(Registered(events) \ completed)

\* C6: schedule_events terminates on every registry that passes the sort, also
\* when a ready task can never be admitted: every pass of the loop either
\* leaves it (the break, or an exception) or admits or completes at least one
\* task, so at most 2 * #tasks passes are made; and the loop is never entered
\* with only waiting tasks left.
C6_Terminates ==
    pc = "loop" =>
        /\ LoopCondition =>
              \/ Pass.break
              \/ Pass.raised # "none"
              \/ Remaining(Pass.schedule, Pass.scheduled) < Remaining(schedule, scheduled)
        /\ (ready_queue = {} /\ active_events = {}) => DOMAIN waiting = {}

\* the loop was left through the break while a task was still waiting
C6_Witness ==
    /\ Returned /\ broke
    /\ ready_queue # {} /\ DOMAIN waiting # {}

\* C7: when the loop stops on the deadlock test, the caller sees an outcome
\* that differs from a normal return.
C7_DeadlockSurfaced ==
    (pc = "idle" /\ call = "schedule_events" /\ broke) =>
        <<raised, returned>> # <<"none", "schedule">>

\* the example registry has just been scheduled
ExampleScheduled ==
    Returned /\ events = ExampleRegistry /\ total_resources = 2

\* C4 as stated: on the example schedule_events returns A = (0, 3), B = (3, 5)
\* and C = (3, 4).
C4_ExampleAsStated ==
    ExampleScheduled =>
        schedule = [n \in {"A", "B", "C"} |->
                       CASE n = "A" -> <<0, 3>> [] n = "B" -> <<3, 5>> [] n = "C" -> <<3, 4>>]

\* C4 amended: on the example schedule_events returns A = (0, 3), C = (3, 4)
\* and B = (4, 6): at time 3 C (priority 1) is admitted before B (priority 2),
\* and B, which needs both workers, waits until C ends.
C4_Example ==
    ExampleScheduled =>
        schedule = [n \in {"A", "B", "C"} |->
                       CASE n = "A" -> <<0, 3>> [] n = "B" -> <<4, 6>> [] n = "C" -> <<3, 4>>]

C4_Witness == ExampleScheduled /\ DOMAIN schedule = {"A", "B", "C"}

(***************************************************************************)
(* Properties of topological_sort and of the errors.                       *)
(***************************************************************************)
\* every dependency names a registered task
AllKnown(evs) == \A i \in DOMAIN evs : Range(evs[i].dependencies) \subseteq Registered(evs)

\* the names reachable from S along dependencies in at most k steps
RECURSIVE Reach(_, _, _)
Reach(evs, S, k) ==
    IF k = 0 THEN S
    ELSE Reach(evs,
               S \cup UNION {Range(Lookup(evs, n).dependencies) \cap Registered(evs) :
                               n \in S \cap Registered(evs)},
               k - 1)

\* the tasks a task depends on, directly or transitively
TransitiveDeps(evs, n) ==
    Reach(evs, Range(Lookup(evs, n).dependencies) \cap Registered(evs), Len(evs))

\* the dependency relation among registered tasks has no cycle
Acyclic(evs) == \A n \in Registered(evs) : n \notin TransitiveDeps(evs, n)

\* position of a name in a list without repetitions
Position(order, n) == CHOOSE i \in DOMAIN order : order[i] = n

SortReturned == pc = "idle" /\ call = "topological_sort"

\* C3: on a registry whose dependencies are all registered and acyclic,
\* topological_sort returns every registered task exactly once, each after
\* all of its dependencies.
C3_SortIsTopological ==
    (SortReturned /\ AllKnown(events) /\ Acyclic(events)) =>
        /\ raised = "none"
        /\ Len(sorted_order) = Len(events)
        /\ Range(sorted_order) = Registered(events)
        /\ \A n \in Registered(events) :
              \A d \in Range(Lookup(events, n).dependencies) :
                  Position(sorted_order, d) < Position(sorted_order, n)

\* a sort of three tasks where the last one has two dependencies, one of them
\* a dependency of the other
C3_Witness ==
    /\ SortReturned /\ raised = "none" /\ Len(sorted_order) = 3
    /\ \E a, b, c \in Registered(events) :
          /\ Range(Lookup(events, c).dependencies) = {a, b}
          /\ Range(Lookup(events, b).dependencies) = {a}
          /\ Rank(c) < Rank(b)

\* C8: when the dependencies are all registered but contain a cycle,
\* topological_sort and schedule_events raise the cycle error and return no
\* order and no schedule.
C8_CycleDetected ==
    (/\ pc = "idle"
     /\ call \in {"topological_sort", "schedule_events"}
     /\ AllKnown(events)
     /\ ~Acyclic(events)) =>
        /\ raised = "cycle"
        /\ sorted_order = <<>>
        /\ returned = "nothing"

\* schedule_events raised the cycle error on a registry where two tasks depend
\* on each other and a third depends on itself
C8_Witness ==
    /\ pc = "idle" /\ call = "schedule_events" /\ raised = "cycle"
    /\ AllKnown(events)
    /\ \E a, b, c \in Registered(events) :
          /\ a # b
          /\ a \in Range(Lookup(events, b).dependencies)
          /\ b \in Range(Lookup(events, a).dependencies)
          /\ c \in Range(Lookup(events, c).dependencies)

\* C9: when a registered task lists a name that is not registered,
\* topological_sort and schedule_events raise the unknown-dependency error,
\* and schedule_events does so with no interval assigned.
C9_UnknownDependency ==
    (/\ pc = "idle"
     /\ call \in {"topological_sort", "schedule_events"}
     /\ ~AllKnown(events)) =>
        /\ raised = "unknown_dependency"
        /\ returned = "nothing"
        /\ call = "schedule_events" => schedule = EmptyMap

\* schedule_events raised the unknown-dependency error on a registry left
\* with one task after three registry calls, with a schedule stored before
C9_Witness ==
    /\ pc = "idle" /\ call = "schedule_events" /\ raised = "unknown_dependency"
    /\ budget = 0 /\ Len(events) = 1
    /\ prior # EmptyMap

\* C10: after schedule_events fails with the unknown-dependency or the cycle
\* error the stored schedule is empty, whatever it held before.
C10_FailureClearsSchedule ==
    (/\ pc = "idle"
     /\ call = "schedule_events"
     /\ raised \in {"unknown_dependency", "cycle"}) =>
        schedule = EmptyMap

\* schedule_events raised the cycle error while a schedule of two tasks was
\* stored
C10_Witness ==
    /\ pc = "idle" /\ call = "schedule_events" /\ raised = "cycle"
    /\ Cardinality(DOMAIN prior) = 2
    /\ schedule = EmptyMap

(***************************************************************************)
(* Determinism and tie-breaking.                                           *)
(***************************************************************************)
\* the registries that hold the tasks of evs, added in any order
Reorderings(evs) ==
    {[i \in DOMAIN evs |-> evs[f[i]]] :
        f \in {g \in [DOMAIN evs -> DOMAIN evs] :
                  \A i, j \in DOMAIN evs : g[i] = g[j] => i = j}}

\* C11: what topological_sort returns depends on the task set alone: on the
\* same registry again, and on every registry holding the same tasks added
\* in another order, it returns the identical sequence (or raises the same
\* error).
C11_SortDeterministic ==
    SortReturned =>
        \A q \in Reorderings(events) :
            /\ topological_sort(q).raised = raised
            /\ topological_sort(q).order = sorted_order

\* three tasks added in descending name order, the first and the last added
\* ready in the first round with equal priority, returned in name order
C11_Witness ==
    /\ SortReturned /\ raised = "none" /\ Len(events) = 3
    /\ events[1].name = "C" /\ events[3].name = "A"
    /\ events[1].dependencies = <<>> /\ events[3].dependencies = <<>>
    /\ events[1].priority = events[3].priority
    /\ sorted_order[1] = "A" /\ sorted_order[2] = "C"

\* the round in which a task of an acyclic registry becomes ready: 0 without
\* dependencies, otherwise one more than the latest round of a dependency
RECURSIVE Level(_, _)
Level(evs, n) ==
    LET deps == Range(Lookup(evs, n).dependencies)
    IN IF deps = {} THEN 0 ELSE 1 + Max({Level(evs, d) : d \in deps})

\* the names a pass of the loop admits, and those it leaves in the ready queue
AdmittedBy(p) == DOMAIN p.schedule \ DOMAIN schedule
LeftBy(p) == {item[2] : item \in p.ready_queue}

\* a and b have equal priority and a has the smaller name
TieBefore(a, b) ==
    /\ Lookup(events, a).priority = Lookup(events, b).priority
    /\ Rank(a) < Rank(b)

ReportsOf(n) == {i \in DOMAIN missed : missed[i][1] = n}

\* C13: check_deadlines returns exactly one tuple (name, deadline, end) for
\* each scheduled task that has a deadline set and ends after it, and none for
\* a task without deadline or one that ends at or before its deadline.
C13_MissedDeadlines ==
    (pc = "idle" /\ call = "check_deadlines") =>
        /\ raised = "none"
        /\ \A i \in DOMAIN missed : missed[i][1] \in DOMAIN schedule
        /\ \A n \in DOMAIN schedule :
              LET deadline == Lookup(events, n).deadline
                  end == schedule[n][2]
              IN IF deadline # NoDeadline /\ end > deadline
                 THEN /\ Cardinality(ReportsOf(n)) = 1
                      /\ \A i \in ReportsOf(n) : missed[i] = <<n, deadline, end>>
                 ELSE ReportsOf(n) = {}

\* two scheduled tasks with deadline 1: one ends at 1 and is not reported,
\* the other ends later and is the only one reported
C13_Witness ==
    /\ pc = "idle" /\ call = "check_deadlines"
    /\ Len(missed) = 1
    /\ \E n, m \in DOMAIN schedule :
          /\ n # m
          /\ Lookup(events, n).deadline = 1 /\ schedule[n][2] = 1
          /\ Lookup(events, m).deadline = 1 /\ schedule[m][2] > 1
          /\ missed[1] = <<m, 1, schedule[m][2]>>

(***************************************************************************)
(* More properties of schedule_events.                                     *)
(***************************************************************************)
\* C14: right after schedule_events returns, every interval of the schedule
\* starts at 0 or later and ends at its start plus the task's duration.
C14_IntervalShape ==
    Returned =>
        \A n \in DOMAIN schedule :
            /\ schedule[n][1] >= 0
            /\ schedule[n][2] = schedule[n][1] + Lookup(events, n).duration

\* a returned schedule with a task of duration 2 that starts after time 0,
\* at the end of a dependency
C14_Witness ==
    /\ Returned
    /\ \E n \in DOMAIN schedule :
          /\ Lookup(events, n).duration = 2
          /\ schedule[n][1] > 0
          /\ \E d \in DependenciesOf(n) : schedule[d][2] = schedule[n][1]

(***************************************************************************)
(* Frame properties of remove_event and modify_event.                      *)
(***************************************************************************)
\* every task registered after the step is registered before it, unchanged
\* and in the same relative place, except for the task named n
OthersUnchanged(n) ==
    /\ \A m \in (Registered(events) \cup Registered(events')) \ {n} :
          /\ m \in Registered(events) /\ m \in Registered(events')
          /\ Lookup(events', m) = Lookup(events, m)
    /\ DelFromDict(events', n) = DelFromDict(events, n)

\* what remove_event(n) has to do
RemovePost(n) ==
    /\ total_resources' = total_resources
    /\ IF n \in Registered(events)
       THEN /\ returned' = "True"
            /\ n \notin Registered(events')
            /\ OthersUnchanged(n)
            /\ DOMAIN schedule' = DOMAIN schedule \ {n}
            /\ \A m \in DOMAIN schedule' : schedule'[m] = schedule[m]
       ELSE /\ returned' = "False"
            /\ events' = events
            /\ schedule' = schedule

\* C15: remove_event on a registered name deletes the task and its schedule
\* entry, leaves every other task and entry as it was and returns True; on
\* an unregistered name it returns False and changes neither.
C15_RemoveFrame ==
    [][call' = "remove_event" =>
          \A n \in LifeNames : remove_event(n) => RemovePost(n)]_vars

\* remove_event returned True and left one task, whose dependency is the
\* removed task and whose schedule entry, after that of the removed task, is
\* still stored
C15_Witness ==
    /\ pc = "idle" /\ call = "remove_event" /\ returned = "True"
    /\ Len(events) = 1
    /\ DOMAIN schedule = Registered(events)
    /\ \E n \in DOMAIN schedule :
          /\ schedule[n][1] > 0
          /\ \E d \in DependenciesOf(n) : d \notin Registered(events)

\* what modify_event(n, kw) has to do
ModifyPost(n, kw) ==
    /\ total_resources' = total_resources
    /\ schedule' = schedule
    /\ IF n \in Registered(events)
       THEN /\ returned' = "True"
            /\ OthersUnchanged(n)
            /\ Len(events') = Len(events)
            /\ \A i \in DOMAIN events : events'[i].name = events[i].name
            /\ \A f \in DOMAIN Lookup(events, n) :
                  Lookup(events', n)[f] = IF f \in DOMAIN kw THEN kw[f]
                                          ELSE Lookup(events, n)[f]
       ELSE /\ returned' = "False"
            /\ events' = events

\* C16: modify_event on a registered name changes only the fields named in
\* the updates, on that task only, leaves the stored schedule and all other
\* tasks as they were and returns True; on an unregistered name it returns
\* False and changes nothing.
C16_ModifyFrame ==
    [][call' = "modify_event" =>
          \A n \in LifeNames, kw \in LifeUpdates :
              modify_event(n, kw) => ModifyPost(n, kw)]_vars

\* modify_event returned True on a registry of two tasks and left a stored
\* schedule that no longer matches the duration of one of them
C16_Witness ==
    /\ pc = "idle" /\ call = "modify_event" /\ returned = "True"
    /\ Len(events) = 2
    /\ DOMAIN schedule = Registered(events)
    /\ \E n \in DOMAIN schedule :
          schedule[n][2] # schedule[n][1] + Lookup(events, n).duration

(***************************************************************************)
(* Properties of saving and loading.                                       *)
(***************************************************************************)
\* the event a task entry of a document stands for, absent keys defaulted
EntryEvent(t) ==
    Event(t.name, t.duration,
          IF "dependencies" \in DOMAIN t THEN t.dependencies ELSE <<>>,
          IF "resources_required" \in DOMAIN t THEN t.resources_required ELSE 1,
          IF "priority" \in DOMAIN t THEN t.priority ELSE 1,
          IF "deadline" \in DOMAIN t THEN t.deadline ELSE NoDeadline)

\* C17: loading into an empty scheduler the document save_tasks_to_json wrote
\* gives the registry and the total_resources that were saved; and every
\* task entry loaded into an empty scheduler becomes the event with its
\* values, a key that is absent taking the default (no dependencies, 1
\* worker, priority 1, deadline -1).
C17_SaveLoadRoundTrip ==
    [][(/\ events = <<>>
        /\ file # <<>>
        /\ \E response \in Responses : load_tasks_from_json(response)) =>
           /\ origin # <<>> =>
                 /\ events' = origin[1].events
                 /\ total_resources' = origin[1].total_resources
           /\ Len(events') = Len(file[1].tasks)
           /\ \A i \in DOMAIN file[1].tasks :
                 events'[i] = EntryEvent(file[1].tasks[i])]_vars

\* a registry of two tasks, with a deadline, a dependency, priority 2 and
\* more than one worker among their fields, is in the scheduler again after
\* a load of the document it was saved to
C17_Witness ==
    /\ call = "load_tasks_from_json"
    /\ origin # <<>> /\ file # <<>>
    /\ Len(events) = 2
    /\ events = origin[1].events
    /\ total_resources = origin[1].total_resources
    /\ \E i \in DOMAIN events :
          /\ events[i].deadline = 1 /\ events[i].priority = 2
          /\ events[i].dependencies # <<>>
          /\ events[i].resources_required = MaxTotal

(***************************************************************************)
(* The shape of the sort and of the admission pass.                        *)
(***************************************************************************)
\* a is before b in the order (level, priority, name)
LevelKeyLess(evs, a, b) ==
    \/ Level(evs, a) < Level(evs, b)
    \/ /\ Level(evs, a) = Level(evs, b)
       /\ PairLess(<<Lookup(evs, a).priority, a>>, <<Lookup(evs, b).priority, b>>)

\* C18: topological_sort returns the registered tasks sorted by (level,
\* priority, name), the level of a task being 0 without dependencies and
\* otherwise one more than the highest level of its dependencies.
C18_LevelBatched ==
    (SortReturned /\ raised = "none") =>
        /\ Range(sorted_order) = Registered(events)
        /\ Len(sorted_order) = Len(events)
        /\ \A i, j \in DOMAIN sorted_order :
              i < j => LevelKeyLess(events, sorted_order[i], sorted_order[j])

\* a sort where a task of the second round with priority 1 comes after a
\* task of the first round with priority 2 that it does not depend on
C18_Witness ==
    /\ SortReturned /\ raised = "none"
    /\ \E i, j \in DOMAIN sorted_order :
          LET x == sorted_order[i]
              y == sorted_order[j]
          IN /\ i < j
             /\ Level(events, x) = 0 /\ Level(events, y) = 1
             /\ Lookup(events, x).priority = 2 /\ Lookup(events, y).priority = 1
             /\ x \notin Range(Lookup(events, y).dependencies)

\* first fit over a list of names: the names admitted when used workers are
\* in use at the start
RECURSIVE FirstFit(_, _, _, _)
FirstFit(evs, order, used, total) ==
    IF order = <<>> THEN {}
    ELSE LET r == Lookup(evs, Head(order)).resources_required
         IN IF used + r <= total
            THEN {Head(order)} \cup FirstFit(evs, Tail(order), used + r, total)
            ELSE FirstFit(evs, Tail(order), used, total)

\* the workers the tasks S require together
Required(S) == SumOver([n \in S |-> Lookup(events, n).resources_required], S)

\* C19: an admission pass is first-fit in (priority, name) order: of the
\* tasks ready in the pass exactly those are admitted that fit, when their
\* turn comes, beside the workers then in use; the others stay in the ready
\* queue, none is lost, and at the end of the pass none of them fits the
\* free capacity.
C19_FirstFit ==
    (pc = "loop" /\ LoopCondition) =>
        \E p \in {Pass} :
            /\ p.raised = "none"
            /\ {item[2] : item \in ready_queue} \subseteq AdmittedBy(p) \cup LeftBy(p)
            /\ AdmittedBy(p) \cap LeftBy(p) = {}
            /\ AdmittedBy(p) =
                  FirstFit(events,
                           SortByPriorityName(events, AdmittedBy(p) \cup LeftBy(p)),
                           p.active_resources - Required(AdmittedBy(p)),
                           total_resources)
            /\ \A n \in LeftBy(p) :
                  p.active_resources + Lookup(events, n).resources_required
                      > total_resources

\* a pass that leaves a task of priority 1 that does not fit and admits a
\* task of priority 2 behind it
C19_Witness ==
    /\ pc = "loop" /\ LoopCondition
    /\ \E a \in LeftBy(Pass), b \in AdmittedBy(Pass) :
          /\ Lookup(events, a).priority = 1
          /\ Lookup(events, b).priority = 2
          /\ Lookup(events, a).resources_required <= total_resources

(***************************************************************************)
(* The schedule as a result of the last call.                              *)
(***************************************************************************)
\* the tasks given an interval by the call that has just returned: each was
\* pushed on active_events when admitted and is there or was retired
AssignedThisCall == scheduled \cup {item[2] : item \in active_events}

\* C20: a successful schedule_events replaces the stored schedule: it holds
\* intervals only for tasks this call admitted, whatever was stored before,
\* and a call entered right after a call returned, on the unchanged registry,
\* returns the schedule the first one returned.
C20_FullReplace ==
    Returned =>
        /\ DOMAIN schedule = AssignedThisCall
        /\ rerun => schedule = prior

\* schedule_events returned through the break without an interval for a
\* registered task that had one in the schedule stored before the call
C20_Witness ==
    /\ Returned /\ broke
    /\ \E n \in DOMAIN prior \ DOMAIN schedule : n \in Registered(events)

\* schedule_events returned for the second time in a row with a schedule of
\* two tasks
C20_RerunReached ==
    /\ Returned /\ rerun
    /\ Cardinality(DOMAIN schedule) = 2

(***************************************************************************)
(* The schedule against the registry.                                      *)
(***************************************************************************)
\* C21: whatever calls were made, every name with a schedule entry is a
\* registered task, and check_deadlines never fails on a task missing from
\* the registry.
C21_ScheduleKeysRegistered ==
    /\ DOMAIN schedule \subseteq Registered(events)
    /\ call = "check_deadlines" => raised = "none"

\* check_deadlines returned after a scheduled task was removed: the task
\* left depends on the removed one and still has its entry
C21_Witness ==
    /\ pc = "idle" /\ call = "check_deadlines" /\ raised = "none"
    /\ Len(events) = 1
    /\ DOMAIN schedule = Registered(events)
    /\ \E n \in DOMAIN schedule :
          /\ schedule[n][1] > 0
          /\ \E d \in DependenciesOf(n) : d \notin Registered(events)

\* the task n and everything it depends on, directly or not, fit the pool
FitsWithDependencies(n) ==
    \A m \in {n} \cup TransitiveDeps(events, n) :
        Lookup(events, m).resources_required <= total_resources

\* C22: when the sort succeeds, the schedule schedule_events returns holds a
\* task exactly when the task and all its transitive dependencies require at
\* most total_resources: a task over capacity and the tasks that depend on
\* it have no entry, every other task has one.
C22_ScheduledIffFits ==
    Returned =>
        \A n \in Registered(events) :
            n \in DOMAIN schedule <=> FitsWithDependencies(n)

\* schedule_events returned through the break: a task over capacity and a
\* task that depends on it have no entry, and a task of lower precedence
\* than the one over capacity is scheduled
C22_Witness ==
    /\ Returned /\ broke
    /\ \E x, y, z \in Registered(events) :
          /\ Lookup(events, x).resources_required > total_resources
          /\ x \in DependenciesOf(y)
          /\ Lookup(events, y).resources_required <= total_resources
          /\ x \notin DOMAIN schedule /\ y \notin DOMAIN schedule
          /\ z \in DOMAIN schedule
          /\ Lookup(events, z).priority > Lookup(events, x).priority

====
